---- MODULE Spec2Model ----
(***************************************************************************)
(* A model of sacred/dependencies.py: the discovery of the local source    *)
(* files and of the package dependencies of a running experiment.          *)
(*                                                                         *)
(* Strings are sequences of symbols.  A symbol stands for a run of         *)
(* characters that holds no separator: "foo" is <<"foo">>, "foo.bar" is    *)
(* <<"foo", ".", "bar">>, "/exp/run.py" is <<"/", "exp", "/", "run",       *)
(* ".py">>.  The separators "/", "." and "!" and the file extensions       *)
(* ".py" and ".pyc" are symbols of their own, so that splitting, joining,  *)
(* prefixing and matching are computed and not looked up.                  *)
(***************************************************************************)
EXTENDS Integers, Sequences, FiniteSets, TLC

VARIABLES
    call,                   \* a pure function's arguments (SpecLocal, SpecVersion)
    ret,                    \* and what it returned
    globs,                  \* the namespace: its __file__ and its values
    sys_modules,            \* the process registry: name -> module, None or Missing
    fs,                     \* the files that exist
    pc,                     \* where the run of gather_sources_and_dependencies is
    main,                   \* get_main_file's Source, or None
    experiment_path,        \* get_main_file's base path
    discover_sources,       \* SETTINGS['DISCOVER_SOURCES'] as read at line 408
    discover_dependencies,  \* SETTINGS['DISCOVER_DEPENDENCIES'] as read at line 413
    gen,                    \* the module iterator the running loop draws from
    sources,                \* the set of Source being built
    dependencies,           \* the set of PackageDependency being built
    result                  \* the triple returned, or the error raised

vars == <<call, ret, globs, sys_modules, fs, pc, main, experiment_path,
          discover_sources, discover_dependencies, gen, sources, dependencies,
          result>>

(***************************************************************************)
(* Python values: every optional value is a tagged record, so that None, a *)
(* missing attribute and a string can be told apart and compared.          *)
(***************************************************************************)
None == [t |-> "None"]
Missing == [t |-> "missing"]            \* hasattr(...) is False
Str(s) == [t |-> "str", v |-> s]
PyInt(n) == [t |-> "int", v |-> n]
Tuple(es) == [t |-> "tuple", v |-> es]
Other == [t |-> "other"]               \* any value that is no string and no tuple
Idle == [t |-> "idle"]

(***************************************************************************)
(* Strings                                                                 *)
(***************************************************************************)

\* Bounded sequences over S.
SeqUpTo(S, n) == UNION {[1..k -> S] : k \in 0..n}

RECURSIVE Split(_, _)
\* str.split(sep): always at least one part; empty parts are kept.
Split(s, sep) ==
    IF \A k \in 1..Len(s) : s[k] # sep
    THEN <<s>>
    ELSE LET k == CHOOSE j \in 1..Len(s) :
                      s[j] = sep /\ \A h \in 1..(j - 1) : s[h] # sep
         IN <<SubSeq(s, 1, k - 1)>> \o Split(SubSeq(s, k + 1, Len(s)), sep)

RECURSIVE Join(_, _)
\* sep.join(parts)
Join(parts, sep) ==
    IF Len(parts) = 0 THEN <<>>
    ELSE IF Len(parts) = 1 THEN parts[1]
    ELSE parts[1] \o <<sep>> \o Join(Tail(parts), sep)

Reverse(s) == [k \in 1..Len(s) |-> s[Len(s) + 1 - k]]

\* zip(a, b): as long as the shorter of the two.
Zip(a, b) ==
    LET n == IF Len(a) < Len(b) THEN Len(a) ELSE Len(b)
    IN [k \in 1..n |-> <<a[k], b[k]>>]

EndsWith(s, sym) == Len(s) > 0 /\ s[Len(s)] = sym

IsPrefix(a, b) == Len(a) <= Len(b) /\ SubSeq(b, 1, Len(a)) = a

(***************************************************************************)
(* os.path, on absolute or relative paths without "." and ".." in them     *)
(***************************************************************************)

Sep == "/"
Cwd == <<"/", "exp">>
ExtSymbols == {".py", ".pyc"}

IsAbs(p) == Len(p) > 0 /\ p[1] = Sep

\* The index of the last separator of p, 0 when it has none (str.rfind + 1).
RFindSep(p) ==
    IF \A k \in 1..Len(p) : p[k] # Sep THEN 0
    ELSE CHOOSE j \in 1..Len(p) : p[j] = Sep /\ \A h \in (j + 1)..Len(p) : p[h] # Sep

RECURSIVE RStripSep(_)
RStripSep(p) == IF EndsWith(p, Sep) THEN RStripSep(SubSeq(p, 1, Len(p) - 1)) ELSE p

\* os.path.split: <<head, tail>>; the head loses its trailing separators unless
\* it is made of separators only.
PathSplit(p) ==
    LET i == RFindSep(p)
        head == SubSeq(p, 1, i)
        tail == SubSeq(p, i + 1, Len(p))
    IN <<IF \E k \in 1..Len(head) : head[k] # Sep THEN RStripSep(head) ELSE head,
         tail>>

dirname(p) == PathSplit(p)[1]

\* os.path.splitext of one component: <<root, ext>>.  A leading extension
\* symbol is part of the name (".py" has no extension).
splitext(c) ==
    IF Len(c) > 1 /\ c[Len(c)] \in ExtSymbols
    THEN <<SubSeq(c, 1, Len(c) - 1), <<c[Len(c)]>>>>
    ELSE <<c, <<>>>>

\* os.path.abspath: relative paths are taken from the working directory, the
\* empty path is the working directory.
abspath(p) ==
    IF IsAbs(p) THEN p
    ELSE IF Len(p) = 0 THEN Cwd
    ELSE Cwd \o <<Sep>> \o p

\* The non-empty components of a path.
Components(p) == SelectSeq(Split(p, Sep), LAMBDA c : Len(c) > 0)

RECURSIVE CommonLen(_, _)
CommonLen(a, b) ==
    IF Len(a) = 0 \/ Len(b) = 0 \/ a[1] # b[1] THEN 0
    ELSE 1 + CommonLen(Tail(a), Tail(b))

\* os.path.relpath(path, start)
relpath(path, start) ==
    LET sl == Components(abspath(start))
        pl == Components(abspath(path))
        i == CommonLen(sl, pl)
        ups == [k \in 1..(Len(sl) - i) |-> <<"..">>]
        rel == ups \o SubSeq(pl, i + 1, Len(pl))
    IN IF Len(rel) = 0 THEN <<".">> ELSE Join(rel, Sep)

\* sacred.utils.is_subdir: the path is the directory or lies underneath it.
is_subdir(path, directory) ==
    LET relative == relpath(path, directory)
    IN ~(relative = <<"..">> \/ IsPrefix(<<"..", Sep>>, relative))

(***************************************************************************)
(* splitall, convert_path_to_module_parts, is_local_source                 *)
(***************************************************************************)

RECURSIVE splitall(_)
splitall(path) ==
    LET parts == PathSplit(path)
    IN IF parts[1] = path THEN <<parts[1]>>          \* sentinel for absolute paths
       ELSE IF parts[2] = path THEN <<parts[2]>>     \* sentinel for relative paths
       ELSE Append(splitall(parts[1]), parts[2])

InitFiles == {<<"__init__", ".py">>, <<"__init__", ".pyc">>}

convert_path_to_module_parts(path) ==
    LET module_parts == splitall(path)
        n == Len(module_parts)
    IN IF module_parts[n] \in InitFiles
       THEN SubSeq(module_parts, 1, n - 1)
       ELSE [module_parts EXCEPT ![n] = splitext(module_parts[n])[1]]

\* is_local_source without the comparison of the lengths (lines 271-272).
is_local_source_no_length_check(filename, modname, path) ==
    IF ~is_subdir(filename, path) THEN FALSE
    ELSE
      LET rel_path == relpath(filename, path)
          path_parts == convert_path_to_module_parts(rel_path)
          mod_parts == Split(modname, ".")
      IN IF path_parts = mod_parts THEN TRUE
         ELSE LET abs_path_parts == convert_path_to_module_parts(abspath(filename))
                  pairs == Zip(Reverse(abs_path_parts), Reverse(mod_parts))
              IN \A k \in 1..Len(pairs) : pairs[k][1] = pairs[k][2]

is_local_source(filename, modname, path) ==
    IF ~is_subdir(filename, path) THEN FALSE
    ELSE
      LET rel_path == relpath(filename, path)
          path_parts == convert_path_to_module_parts(rel_path)
          mod_parts == Split(modname, ".")
      IN IF path_parts = mod_parts THEN TRUE
         ELSE IF Len(path_parts) > Len(mod_parts) THEN FALSE
         ELSE LET abs_path_parts == convert_path_to_module_parts(abspath(filename))
                  pairs == Zip(Reverse(abs_path_parts), Reverse(mod_parts))
              IN \A k \in 1..Len(pairs) : pairs[k][1] = pairs[k][2]

(***************************************************************************)
(* PEP440_VERSION_PATTERN and PackageDependency.get_version_heuristic.     *)
(* Version strings are sequences of characters.                            *)
(***************************************************************************)

Digits == {"0", "1", "2", "3", "4", "5", "6", "7", "8", "9"}

\* The positions a \d+ that starts after position i can end at.
DigitRunEnds(s, i) == {j \in (i + 1)..Len(s) : \A k \in (i + 1)..j : s[k] \in Digits}

\* The literal lit stands right after position i.
Lit(s, i, lit) == i + Len(lit) <= Len(s) /\ SubSeq(s, i + 1, i + Len(lit)) = lit

\* (\d+!)?
AfterEpoch(s, i) ==
    {i} \cup {j + 1 : j \in {h \in DigitRunEnds(s, i) : h < Len(s) /\ s[h + 1] = "!"}}

\* (\d[.\d]*(?<= \d)): under re.VERBOSE the blank of the lookbehind is dropped.
AfterRelease(s, i) ==
    {j \in (i + 1)..Len(s) :
        /\ s[i + 1] \in Digits
        /\ \A k \in (i + 2)..j : s[k] \in Digits \cup {"."}
        /\ s[j] \in Digits}

\* ((?:[abc]|rc)\d+)?
AfterPre(s, i) ==
    {i} \cup (IF i + 1 <= Len(s) /\ s[i + 1] \in {"a", "b", "c"}
              THEN DigitRunEnds(s, i + 1) ELSE {})
        \cup (IF Lit(s, i, <<"r", "c">>) THEN DigitRunEnds(s, i + 2) ELSE {})

\* (?:(\.post\d+))?
AfterPost(s, i) ==
    {i} \cup (IF Lit(s, i, <<".", "p", "o", "s", "t">>)
              THEN DigitRunEnds(s, i + 5) ELSE {})

\* (?:(\.dev\d+))?
AfterDev(s, i) ==
    {i} \cup (IF Lit(s, i, <<".", "d", "e", "v">>)
              THEN DigitRunEnds(s, i + 4) ELSE {})

\* PEP440_VERSION_PATTERN.match(s): anchored at both ends; "$" also matches
\* before a final newline.
PEP440_VERSION_PATTERN(s) ==
    LET e == AfterEpoch(s, 0)
        r == UNION {AfterRelease(s, i) : i \in e}
        p == UNION {AfterPre(s, i) : i \in r}
        q == UNION {AfterPost(s, i) : i \in p}
        d == UNION {AfterDev(s, i) : i \in q}
    IN \/ Len(s) \in d
       \/ Len(s) > 0 /\ s[Len(s)] = "\n" /\ (Len(s) - 1) \in d

RECURSIVE IntStr(_)
\* str(n) of a natural number
IntStr(n) ==
    LET digit == CHOOSE c \in Digits :
                     c = <<"0", "1", "2", "3", "4", "5", "6", "7", "8", "9">>[(n % 10) + 1]
    IN IF n < 10 THEN <<digit>> ELSE IntStr(n \div 10) \o <<digit>>

\* str(n) of a tuple's element
PyStr(e) == IF e.t = "int" THEN IntStr(e.v) ELSE e.v

possible_version_attributes == <<"__version__", "VERSION", "version">>

RECURSIVE VersionFromFirstPresent(_, _)
\* The loop returning at the first attribute the module has, qualifying or not.
VersionFromFirstPresent(mod, vattrs) ==
    IF Len(vattrs) = 0 THEN None
    ELSE LET version == mod[vattrs[1]]
             joined == Join([k \in 1..Len(version.v) |-> PyStr(version.v[k])], ".")
         IN IF version.t = "str" /\ PEP440_VERSION_PATTERN(version.v)
            THEN Str(version.v)
            ELSE IF version.t = "tuple" /\ PEP440_VERSION_PATTERN(joined)
            THEN Str(joined)
            ELSE IF version # Missing THEN None
            ELSE VersionFromFirstPresent(mod, Tail(vattrs))

RECURSIVE VersionFrom(_, _)
\* The loop of get_version_heuristic over the attributes still to probe.
VersionFrom(mod, vattrs) ==
    IF Len(vattrs) = 0 THEN None
    ELSE LET version == mod[vattrs[1]]
             joined == Join([k \in 1..Len(version.v) |-> PyStr(version.v[k])], ".")
         IN IF version.t = "str" /\ PEP440_VERSION_PATTERN(version.v)
            THEN Str(version.v)
            ELSE IF version.t = "tuple" /\ PEP440_VERSION_PATTERN(joined)
            THEN Str(joined)
            ELSE VersionFrom(mod, Tail(vattrs))

get_version_heuristic(mod) == VersionFrom(mod, possible_version_attributes)

(***************************************************************************)
(* Source and PackageDependency; Python sets of them                       *)
(***************************************************************************)

Source(filename, digest) == [t |-> "Source", filename |-> filename, digest |-> digest]

PackageDependency(name, version) ==
    [t |-> "PackageDependency", name |-> name, version |-> version]

\* Source.__eq__ comparing the digests too.
SourceEqWithDigest(self, other) ==
    IF other.t = "Source"
    THEN self.filename = other.filename /\ self.digest = other.digest
    ELSE IF other.t = "str" THEN self.filename = other.v
    ELSE FALSE

\* Source.__eq__
SourceEq(self, other) ==
    IF other.t = "Source" THEN self.filename = other.filename
    ELSE IF other.t = "str" THEN self.filename = other.v
    ELSE FALSE

\* PackageDependency.__eq__
PackageDependencyEq(self, other) ==
    IF other.t = "PackageDependency" THEN self.name = other.name ELSE FALSE

\* x == y as a Python set decides it: the __eq__ of either side, identity else.
PyEq(x, y) ==
    IF x.t = "Source" THEN SourceEq(x, y)
    ELSE IF y.t = "Source" THEN SourceEq(y, x)
    ELSE IF x.t = "PackageDependency" THEN PackageDependencyEq(x, y)
    ELSE IF y.t = "PackageDependency" THEN PackageDependencyEq(y, x)
    ELSE x = y

\* x in S
Contains(S, x) == \E y \in S : PyEq(y, x)

\* S.add(x): an element equal to x stays as it is.
SetAdd(S, x) == IF Contains(S, x) THEN S ELSE S \cup {x}

(***************************************************************************)
(* The file system, get_py_file_if_possible, Source.create                 *)
(***************************************************************************)

\* get_digest(filename).  Digests of different files are never compared, so
\* the first read of a file gives "d1"; a file that was read before (read holds
\* its name) and has changed since gives "d2".
get_digest(read, filename, changed) ==
    IF changed /\ filename \in read THEN "d2" ELSE "d1"

ValueError == [t |-> "ValueError"]
AssertionError == [t |-> "AssertionError"]

IsDir(files, p) ==
    \/ p = Cwd
    \/ p = <<Sep>>
    \/ \E f \in files : IsPrefix(p \o <<Sep>>, f)

\* os.path.exists
exists(files, p) == abspath(p) \in files \/ IsDir(files, abspath(p))

get_py_file_if_possible(files, pyc_name) ==
    IF EndsWith(pyc_name, ".py") THEN Str(pyc_name)
    ELSE IF ~EndsWith(pyc_name, ".pyc") THEN AssertionError
    ELSE LET non_compiled_file == SubSeq(pyc_name, 1, Len(pyc_name) - 1) \o <<".py">>
         IN IF exists(files, non_compiled_file)
            THEN Str(non_compiled_file)
            ELSE Str(pyc_name)

\* Source.create without the test that the file exists.
SourceCreateUnchecked(files, filename, read, changed) ==
    IF filename.t # "str" \/ Len(filename.v) = 0
    THEN ValueError
    ELSE LET main_file == get_py_file_if_possible(files, abspath(filename.v))
         IN IF main_file.t = "str"
            THEN Source(main_file.v, get_digest(read, main_file.v, changed))
            ELSE main_file

\* Source.create(filename): a Source, or the error raised.
SourceCreate(files, filename, read, changed) ==
    IF filename.t # "str" \/ Len(filename.v) = 0 \/ ~exists(files, filename.v)
    THEN ValueError
    ELSE LET main_file == get_py_file_if_possible(files, abspath(filename.v))
         IN IF main_file.t = "str"
            THEN Source(main_file.v, get_digest(read, main_file.v, changed))
            ELSE main_file

\* PackageDependency.create(mod), for a mod that has a __name__
PackageDependencyCreate(mod) ==
    PackageDependency(mod.name.v, get_version_heuristic(mod))

(***************************************************************************)
(* The module iterators                                                    *)
(***************************************************************************)

\* MODULE_BLACKLIST: None, the listed names, and sys.builtin_module_names
\* (of which "sys" stands for all).
MODULE_BLACKLIST ==
    {None, Str(<<"__future__">>), Str(<<"__main__">>), Str(<<"hashlib">>),
     Str(<<"os">>), Str(<<"re">>), Str(<<"sys">>)}

\* sacred.utils.iter_prefixes: "a", "a.b", "a.b.c" for "a.b.c".
iter_prefixes(path) ==
    LET split_path == Split(path, ".")
    IN [i \in 1..Len(split_path) |-> Join(SubSeq(split_path, 1, i), ".")]

\* sys.modules.get(modname); the registry is a set of entries, one to a name.
Get(registry, modname) ==
    IF \E e \in registry : e.name = modname
    THEN (CHOOSE e \in registry : e.name = modname).mod
    ELSE None

\* The orders list(sys.modules.items()) may come in.
Items(registry) ==
    {items \in [1..Cardinality(registry) -> registry] :
        \A i, j \in 1..Cardinality(registry) : i # j => items[i] # items[j]}

StopIteration == [t |-> "StopIteration"]
Pair(modname, mod) == [t |-> "pair", modname |-> modname, mod |-> mod]

\* The originating module path of a namespace value: a module's __name__,
\* another value's __module__, Missing when it has neither.
ModPath(glob) == IF glob.t = "module" THEN glob.name ELSE glob.module

\* The generator with a checked set that starts empty.
ImportedStartUnseeded == [kind |-> "imported", checked |-> {}, v |-> 1, p |-> 1]

ImportedStart == [kind |-> "imported", checked |-> MODULE_BLACKLIST, v |-> 1, p |-> 1]

RECURSIVE ImportedNext(_, _, _)
\* iterate_imported_modules resumed in state g: runs to its next yield, or to
\* its end.  g.v is the value the outer loop is at, g.p the prefix the inner.
ImportedNext(values, registry, g) ==
    IF g.v > Len(values) THEN [gen |-> g, item |-> StopIteration]
    ELSE LET mod_path == ModPath(values[g.v])
         IN IF mod_path.t # "str" \/ Len(mod_path.v) = 0
            THEN ImportedNext(values, registry, [g EXCEPT !.v = @ + 1, !.p = 1])
            ELSE LET prefixes == iter_prefixes(mod_path.v)
                 IN IF g.p > Len(prefixes)
                    THEN ImportedNext(values, registry, [g EXCEPT !.v = @ + 1, !.p = 1])
                    ELSE LET modname == prefixes[g.p]
                             mod == Get(registry, modname)
                             h == [g EXCEPT !.p = @ + 1,
                                            !.checked = @ \cup {Str(modname)}]
                         IN IF Str(modname) \in g.checked
                            THEN ImportedNext(values, registry, [g EXCEPT !.p = @ + 1])
                            ELSE IF mod # None
                            THEN [gen |-> h, item |-> Pair(modname, mod)]
                            ELSE ImportedNext(values, registry, h)

SysStart(items) == [kind |-> "sys", items |-> items, k |-> 1]

RECURSIVE SysNext(_)
\* iterate_sys_modules resumed in state g
SysNext(g) ==
    IF g.k > Len(g.items) THEN [gen |-> g, item |-> StopIteration]
    ELSE LET e == g.items[g.k]
             h == [g EXCEPT !.k = @ + 1]
         IN IF Str(e.name) \notin MODULE_BLACKLIST /\ e.mod # None
            THEN [gen |-> h, item |-> Pair(e.name, e.mod)]
            ELSE SysNext(h)

\* next(module_iterator)
GenNext(values, registry, g) ==
    IF g.kind = "imported" THEN ImportedNext(values, registry, g) ELSE SysNext(g)

\* iterate_all_python_files(base_path), as a set: os.walk lists what exists.
iterate_all_python_files(files, base_path) ==
    {f \in files :
        /\ IsPrefix(Components(base_path), Components(dirname(f)))
        /\ \A k \in 1..Len(dirname(f)) : dirname(f)[k] # "__pycache__"
        /\ EndsWith(f, ".py")}

(***************************************************************************)
(* get_sources_from_modules, get_dependencies_from_modules: one turn of    *)
(* the loop each                                                           *)
(***************************************************************************)

Ok(v) == [t |-> "ok", v |-> v]

\* The body of the loop without the test for local source.
SourcesBodyAnyFile(files, srcs, modname, mod, base_path, read, changed) ==
    IF mod.file = Missing THEN Ok(srcs)
    ELSE LET filename == abspath(mod.file.v)
         IN IF ~Contains(srcs, Str(filename))
            THEN LET s == SourceCreate(files, Str(filename), read, changed)
                 IN IF s.t = "Source" THEN Ok(SetAdd(srcs, s)) ELSE s
            ELSE Ok(srcs)

\* The body of get_sources_from_modules' loop for the pair (modname, mod):
\* the set afterwards, or the error Source.create raised.
SourcesBody(files, srcs, modname, mod, base_path, read, changed) ==
    IF mod.file = Missing THEN Ok(srcs)
    ELSE LET filename == abspath(mod.file.v)
         IN IF ~Contains(srcs, Str(filename)) /\ is_local_source(filename, modname, base_path)
            THEN LET s == SourceCreate(files, Str(filename), read, changed)
                 IN IF s.t = "Source" THEN Ok(SetAdd(srcs, s)) ELSE s
            ELSE Ok(srcs)

\* The body of the loop without the test for local source.
DependenciesBodyNoLocalCheck(deps, modname, mod, base_path) ==
    IF mod.name = Missing THEN deps
    ELSE LET pdep == PackageDependencyCreate(mod)
         IN IF (\A k \in 1..Len(pdep.name) : pdep.name[k] # ".") \/ pdep.version # None
            THEN SetAdd(deps, pdep)
            ELSE deps

\* The body of the loop keeping every dependency it creates.
DependenciesBodyKeepAll(deps, modname, mod, base_path) ==
    IF mod.file # Missing /\ is_local_source(abspath(mod.file.v), modname, base_path)
    THEN deps
    ELSE IF mod.name = Missing THEN deps
    ELSE SetAdd(deps, PackageDependencyCreate(mod))

\* The body of get_dependencies_from_modules' loop for the pair (modname, mod);
\* a mod without __name__ raises AttributeError, which is passed over.
DependenciesBody(deps, modname, mod, base_path) ==
    IF mod.file # Missing /\ is_local_source(abspath(mod.file.v), modname, base_path)
    THEN deps
    ELSE IF mod.name = Missing THEN deps
    ELSE LET pdep == PackageDependencyCreate(mod)
         IN IF (\A k \in 1..Len(pdep.name) : pdep.name[k] # ".") \/ pdep.version # None
            THEN SetAdd(deps, pdep)
            ELSE deps

(***************************************************************************)
(* gather_sources_and_dependencies                                         *)
(***************************************************************************)

SourceStrategies == {"none", "imported", "sys", "dir"}
DependencyStrategies == {"none", "imported", "sys", "pkg"}

Raise(e) ==
    /\ pc' = "raised"
    /\ result' = e

\* get_main_file(globs), line 406
GetMainFile ==
    /\ pc = "start"
    /\ IF globs.file = None
       THEN /\ experiment_path' = abspath(<<>>)
            /\ main' = None
            /\ pc' = "gather_sources"
            /\ UNCHANGED result
       ELSE LET m == SourceCreate(fs, globs.file, {}, FALSE)
            IN IF m.t = "Source"
               THEN /\ main' = m
                    /\ experiment_path' = dirname(m.filename)
                    /\ pc' = "gather_sources"
                    /\ UNCHANGED result
               ELSE /\ Raise(m)
                    /\ UNCHANGED <<main, experiment_path>>
    /\ UNCHANGED <<call, ret, globs, sys_modules, fs, discover_sources,
                   discover_dependencies, gen, sources, dependencies>>

\* The files whose digest the run has taken so far.
FilesRead ==
    {s.filename : s \in {x \in sources \cup {main} : x.t = "Source"}}

\* lines 408-409: the strategy is looked up and called.  "none" and "dir"
\* return at once, "imported" and "sys" start get_sources_from_modules.
GatherSources(strategy) ==
    /\ pc = "gather_sources"
    /\ discover_sources' = strategy
    /\ IF strategy = "none"
       THEN sources' = {} /\ pc' = "add_main" /\ UNCHANGED gen
       ELSE IF strategy = "dir"
       THEN /\ \E changed \in SUBSET (iterate_all_python_files(fs, experiment_path)
                                           \cap FilesRead) :
                 LET made == {SourceCreate(fs, Str(f), FilesRead, f \in changed) :
                                 f \in iterate_all_python_files(fs, experiment_path)}
                 IN /\ \A s \in made : s.t = "Source"
                    /\ sources' = made
            /\ pc' = "add_main"
            /\ UNCHANGED gen
       ELSE /\ sources' = {}
            /\ IF strategy = "imported"
               THEN gen' = ImportedStart
               ELSE \E items \in Items(sys_modules) : gen' = SysStart(items)
            /\ pc' = "sources_loop"
    /\ UNCHANGED <<call, ret, globs, sys_modules, fs, main, experiment_path,
                   discover_dependencies, dependencies, result>>

\* lines 331-340: one turn of get_sources_from_modules' loop, or its return.
SourcesLoop ==
    /\ pc = "sources_loop"
    /\ LET n == GenNext(globs.values, sys_modules, gen)
       IN /\ gen' = IF n.item = StopIteration THEN Idle ELSE n.gen
          /\ IF n.item = StopIteration
             THEN pc' = "add_main" /\ UNCHANGED <<sources, result>>
             ELSE \E changed \in BOOLEAN :
                    LET r == SourcesBody(fs, sources, n.item.modname, n.item.mod,
                                         experiment_path, FilesRead, changed)
                    IN IF r.t = "ok"
                       THEN sources' = r.v /\ UNCHANGED <<pc, result>>
                       ELSE Raise(r) /\ UNCHANGED sources
    /\ UNCHANGED <<call, ret, globs, sys_modules, fs, main, experiment_path,
                   discover_sources, discover_dependencies, dependencies>>

\* The installed distributions (pkg_resources.working_set): key and version.
WorkingSet ==
    {PackageDependency(<<"numpy">>, Str(<<"1", ".", "9">>)),
     PackageDependency(<<"sacred">>, Str(<<"0", ".", "6">>))}

\* main added only to what a strategy has found.
AddMainWhenFound(srcs, m) == IF srcs = {} THEN srcs ELSE SetAdd(srcs, m)

\* line 410: sources.add(main)
AddMain(srcs, m) == SetAdd(srcs, m)

\* lines 410-414: main is added to the sources, the dependency strategy is
\* looked up and called.
GatherDependencies(strategy) ==
    /\ pc = "add_main"
    /\ sources' = AddMain(sources, main)
    /\ discover_dependencies' = strategy
    /\ IF strategy = "none"
       THEN dependencies' = {} /\ pc' = "add_numpy" /\ UNCHANGED gen
       ELSE IF strategy = "pkg"
       THEN dependencies' = WorkingSet /\ pc' = "add_numpy" /\ UNCHANGED gen
       ELSE /\ dependencies' = {}
            /\ IF strategy = "imported"
               THEN gen' = ImportedStart
               ELSE \E items \in Items(sys_modules) : gen' = SysStart(items)
            /\ pc' = "dependencies_loop"
    /\ UNCHANGED <<call, ret, globs, sys_modules, fs, main, experiment_path,
                   discover_sources, result>>

\* lines 345-356: one turn of get_dependencies_from_modules' loop, or its return.
DependenciesLoop ==
    /\ pc = "dependencies_loop"
    /\ LET n == GenNext(globs.values, sys_modules, gen)
       IN /\ gen' = IF n.item = StopIteration THEN Idle ELSE n.gen
          /\ IF n.item = StopIteration
             THEN pc' = "add_numpy" /\ UNCHANGED dependencies
             ELSE /\ dependencies' = DependenciesBody(dependencies, n.item.modname,
                                                       n.item.mod, experiment_path)
                  /\ UNCHANGED pc
    /\ UNCHANGED <<call, ret, globs, sys_modules, fs, main, experiment_path,
                   discover_sources, discover_dependencies, sources, result>>

\* An object: t is "module" for an instance of the module type.
Object(t, name, module, file, v1, v2, v3) ==
    [t |-> t, name |-> name, module |-> module, file |-> file,
     __version__ |-> v1, VERSION |-> v2, version |-> v3]

Module(name, file, v1) == Object("module", Str(name), Missing, file, v1, Missing, Missing)

\* opt.np
Numpy == Module(<<"numpy">>, Str(<<"/", "lib", "/", "numpy", "/", "__init__", ".py">>),
                Str(<<"1", ".", "9">>))

\* lines 416-420: numpy is added when it can be imported; the triple is returned.
Return(has_numpy) ==
    /\ pc = "add_numpy"
    /\ LET deps == IF has_numpy
                   THEN SetAdd(dependencies, PackageDependencyCreate(Numpy))
                   ELSE dependencies
       IN /\ dependencies' = deps
          /\ result' = [t |-> "returned", main |-> main, sources |-> sources,
                        dependencies |-> deps]
    /\ pc' = "returned"
    /\ UNCHANGED <<call, ret, globs, sys_modules, fs, main, experiment_path,
                   discover_sources, discover_dependencies, gen, sources>>

(***************************************************************************)
(* The environments a run starts in                                        *)
(***************************************************************************)

MaxModules == 2     \* entries of the registry

RunPy == <<"run", ".py">>
ExpRunPy == <<"/", "exp", "/", "run", ".py">>
ExpRunPyc == <<"/", "exp", "/", "run", ".pyc">>
FooInit == <<"/", "exp", "/", "foo", "/", "__init__", ".py">>
FooBarPy == <<"/", "exp", "/", "foo", "/", "bar", ".py">>
FooBarPyc == <<"/", "exp", "/", "foo", "/", "bar", ".pyc">>
FooGonePy == <<"/", "exp", "/", "foo", "/", "gone", ".py">>
PkgInit == <<"/", "lib", "/", "pkg", "/", "__init__", ".py">>
PkgSubPy == <<"/", "lib", "/", "pkg", "/", "sub", ".py">>
CachedPy == <<"/", "exp", "/", "__pycache__", "/", "run", ".py">>

\* What may exist: everything, or the compiled files without their sources.
FileSystems ==
    {{ExpRunPy, ExpRunPyc, FooInit, FooBarPy, FooBarPyc, PkgInit, PkgSubPy, CachedPy},
     {ExpRunPyc, FooInit, FooBarPyc, PkgInit, PkgSubPy}}

\* The namespace's __file__
MainFiles == {None, Str(<<>>), Str(RunPy), Str(ExpRunPyc), Str(FooBarPy)}

Entry(name, mod) == [name |-> name, mod |-> mod]

\* What the registry may hold.
Entries ==
    {Entry(<<"foo">>, Module(<<"foo">>, Str(FooInit), Missing)),
     Entry(<<"foo", ".", "bar">>,
           Module(<<"foo", ".", "bar">>, Str(FooBarPyc), Str(<<"1", ".", "0">>))),
     Entry(<<"bar">>, Module(<<"bar">>, Str(FooBarPy), Missing)),
     Entry(<<"foo", ".", "gone">>, Module(<<"foo", ".", "gone">>, Str(FooGonePy), Missing)),
     Entry(<<"pkg">>,
           Module(<<"pkg">>, Str(PkgInit), Tuple(<<PyInt(1), PyInt(2), PyInt(3)>>))),
     Entry(<<"pkg", ".", "sub">>, Module(<<"pkg", ".", "sub">>, Str(PkgSubPy), Missing)),
     Entry(<<"pkg", ".", "sub">>,
           Object("module", Str(<<"pkg", ".", "sub">>), Missing, Str(PkgSubPy),
                  Str(<<"d", "e", "v">>), Str(<<"2", ".", "0">>), Missing)),
     Entry(<<"lazy">>, Object("object", Missing, Missing, Missing,
                              Missing, Missing, Missing)),
     Entry(<<"os">>, Module(<<"os">>, Str(<<"/", "lib", "/", "os", ".py">>), Missing)),
     Entry(<<"foo", ".", "os">>, None)}

\* The registries: up to MaxModules entries under different names.
Registries ==
    {r \in SUBSET Entries :
        /\ Cardinality(r) <= MaxModules
        /\ \A d, e \in r : d # e => d.name # e.name}

\* A function defined in the module of the given name.
Function(modname) == Object("object", Str(<<"f">>), Str(modname), Missing,
                            Missing, Missing, Missing)

\* What the namespace may bind.
Values ==
    {Function(<<"foo", ".", "bar">>), Function(<<"pkg", ".", "sub">>),
     Object("object", Missing, Missing, Missing, Missing, Missing, Missing)}

\* The namespaces: a __file__ or none, and no value or one.
Namespaces ==
    {[file |-> file, values |-> values] :
        file \in MainFiles, values \in {<<>>} \cup {<<v>> : v \in Values}}

NotCalled == call = Idle /\ ret = Idle

Init ==
    /\ NotCalled
    /\ fs \in FileSystems
    /\ sys_modules \in Registries
    /\ globs \in Namespaces
    /\ pc = "start"
    /\ main = None
    /\ experiment_path = <<>>
    /\ discover_sources = "unset"
    /\ discover_dependencies = "unset"
    /\ gen = Idle
    /\ sources = {}
    /\ dependencies = {}
    /\ result = Idle

Next ==
    \/ GetMainFile
    \/ \E strategy \in SourceStrategies : GatherSources(strategy)
    \/ SourcesLoop
    \/ \E strategy \in DependencyStrategies : GatherDependencies(strategy)
    \/ DependenciesLoop
    \/ \E has_numpy \in BOOLEAN : Return(has_numpy)

Spec == Init /\ [][Next]_vars

(***************************************************************************)
(* is_local_source on its own: the arguments are drawn, the function is    *)
(* applied.  A filename is built from its directories and its file name, a *)
(* dotted name from its components, and call keeps what they were built    *)
(* from.                                                                   *)
(***************************************************************************)

MaxDepth == 2       \* directories of a filename and of a base path
MaxParts == 3       \* components of a dotted name

DirNames == {<<"foo">>, <<"bar">>}
Stems == {<<"foo">>, <<"bar">>, <<"__init__">>}
NameParts == {<<"foo">>, <<"bar">>, <<>>}

\* The directory with the given components, "/" for none.
DirPath(dirs) == IF Len(dirs) = 0 THEN <<Sep>> ELSE Join(<<<<>>>> \o dirs, Sep)

\* The file leaf (a stem and an extension) in that directory.
FilePath(dirs, leaf) == Join(<<<<>>>> \o dirs \o <<leaf>>, Sep)

LocalCall(dirs, stem, ext, parts, base) ==
    [fn |-> "is_local_source", dirs |-> dirs, stem |-> stem, ext |-> ext,
     parts |-> parts, base |-> base,
     filename |-> FilePath(dirs, stem \o <<ext>>),
     modname |-> Join(parts, "."),
     experiment_path |-> DirPath(base)]

\* The three cases the documentation names.
LocalExamples ==
    {LocalCall(<<<<"exp">>, <<"foo">>>>, <<"bar">>, ".py",
               <<<<"foo">>, <<"bar">>>>, <<<<"exp">>>>),
     LocalCall(<<<<"other">>>>, <<"bar">>, ".py",
               <<<<"foo">>, <<"bar">>>>, <<<<"exp">>>>),
     LocalCall(<<<<"exp">>, <<"foo">>, <<"bar">>>>, <<"baz">>, ".py",
               <<<<"foo">>, <<"bar">>>>, <<<<"exp">>>>)}

LocalCalls ==
    {LocalCall(dirs, stem, ext, parts, base) :
        dirs \in SeqUpTo(DirNames, MaxDepth), stem \in Stems, ext \in ExtSymbols,
        parts \in SeqUpTo(NameParts, MaxParts) \ {<<>>},
        base \in SeqUpTo(DirNames, MaxDepth)}
    \cup LocalExamples

Bool(b) == [t |-> "bool", v |-> b]

\* No run of gather_sources_and_dependencies is under way.
NoRun ==
    /\ globs = [file |-> None, values |-> <<>>]
    /\ sys_modules = {}
    /\ fs = {}
    /\ pc = "idle"
    /\ main = None
    /\ experiment_path = <<>>
    /\ discover_sources = "unset"
    /\ discover_dependencies = "unset"
    /\ gen = Idle
    /\ sources = {}
    /\ dependencies = {}
    /\ result = Idle

run_vars == <<globs, sys_modules, fs, pc, main, experiment_path, discover_sources,
              discover_dependencies, gen, sources, dependencies, result>>

InitLocal ==
    /\ call \in LocalCalls
    /\ ret = Idle
    /\ NoRun

IsLocalSource ==
    /\ call.fn = "is_local_source"
    /\ ret = Idle
    /\ ret' = Bool(is_local_source(call.filename, call.modname, call.experiment_path))
    /\ UNCHANGED <<call, run_vars>>

SpecLocal == InitLocal /\ [][IsLocalSource]_vars

(***************************************************************************)
(* get_version_heuristic on its own                                        *)
(***************************************************************************)

MaxVersionLen == 3      \* characters of a version string

VersionChars == {"1", ".", "a", "!"}

NotAVersion == <<"n", "o", "t", "-", "a", "-", "v", "e", "r", "s", "i", "o", "n">>

\* Longer strings, of every part of the grammar.
VersionStrings ==
    {NotAVersion,
     <<"1", ".", "2", ".", "3">>,
     <<"1", "!", "2", ".", "0", "r", "c", "1", ".", "p", "o", "s", "t", "2",
       ".", "d", "e", "v", "3">>,
     <<"2", ".", "0", "r", "c">>,
     <<"1", ".", "p", "o", "s", "t", "1">>,
     <<"1", ".", "p", "o", "s", "t">>,
     <<"1", ".", "d", "e", "v", "0">>,
     <<"1", ".", "d", "e", "v", "0", ".", "p", "o", "s", "t", "1">>,
     <<"1", ".", "0", "\n">>,
     <<"1", ".", "0", " ">>}

VersionTuples ==
    {<<>>, <<PyInt(1), PyInt(2), PyInt(3)>>, <<PyInt(12), PyInt(0)>>,
     <<PyInt(1), PyInt(0), Str(<<"f", "i", "n", "a", "l">>), PyInt(0)>>,
     <<PyInt(1), Str(<<"2", "b", "1">>)>>}

VersionValues ==
    {Missing, Other}
    \cup {Str(s) : s \in SeqUpTo(VersionChars, MaxVersionLen) \cup VersionStrings}
    \cup {Tuple(es) : es \in VersionTuples}

\* One value of each kind, for the attributes probed later.
FewVersionValues ==
    {Missing, Other, Str(NotAVersion), Str(<<"2", ".", "0">>),
     Tuple(<<PyInt(1), PyInt(2), PyInt(3)>>), Tuple(<<>>)}

InitVersion ==
    /\ \E v1 \in VersionValues, v2, v3 \in FewVersionValues :
          call = [fn |-> "get_version_heuristic",
                  mod |-> Object("module", Str(<<"pkg">>), Missing, Missing, v1, v2, v3)]
    /\ ret = Idle
    /\ NoRun

GetVersionHeuristic ==
    /\ call.fn = "get_version_heuristic"
    /\ ret = Idle
    /\ ret' = get_version_heuristic(call.mod)
    /\ UNCHANGED <<call, run_vars>>

SpecVersion == InitVersion /\ [][GetVersionHeuristic]_vars

(***************************************************************************)
(* C2: the decision of is_local_source                                     *)
(***************************************************************************)

\* The module parts of a file: its directories, and its stem unless it is a
\* package initializer.
ModuleParts(dirs, stem) == dirs \o (IF stem = <<"__init__">> THEN <<>> ELSE <<stem>>)

\* The filename lies underneath the base path.
C2_Under == IsPrefix(call.base, call.dirs)

C2_RelParts ==
    ModuleParts(SubSeq(call.dirs, Len(call.base) + 1, Len(call.dirs)), call.stem)

C2_AbsParts == <<<<Sep>>>> \o ModuleParts(call.dirs, call.stem)

\* Every component of the dotted name equals the corresponding trailing
\* component of the absolute path's module parts.
C2_SuffixMatch ==
    \A k \in 1..Len(call.parts) :
        /\ k <= Len(C2_AbsParts)
        /\ call.parts[Len(call.parts) + 1 - k] = C2_AbsParts[Len(C2_AbsParts) + 1 - k]

C2_Decision ==
    IF ~C2_Under THEN FALSE
    ELSE IF C2_RelParts = call.parts THEN TRUE
    ELSE IF Len(C2_RelParts) > Len(call.parts) THEN FALSE
    ELSE C2_SuffixMatch

C2_Example(filename, modname, path, local) ==
    (call.filename = filename /\ call.modname = modname /\ call.experiment_path = path)
        => ret.v = local

\* C2: is_local_source decides in this order: not local when the filename is not
\* underneath the base path; local when the module parts of the relative path
\* equal the components of the dotted name; not local when the relative path
\* has more module parts than the name has components; otherwise local exactly
\* when every component of the name equals the corresponding trailing module
\* part of the absolute path.  ("/exp/foo/bar.py", "foo.bar", "/exp") is local,
\* ("/other/bar.py", "foo.bar", "/exp") and ("/exp/foo/bar/baz.py", "foo.bar",
\* "/exp") are not.
C2_IsLocalSourceDecides ==
    (call.fn = "is_local_source" /\ ret # Idle) =>
        /\ ret = Bool(C2_Decision)
        /\ C2_Example(<<"/", "exp", "/", "foo", "/", "bar", ".py">>,
                      <<"foo", ".", "bar">>, <<"/", "exp">>, TRUE)
        /\ C2_Example(<<"/", "other", "/", "bar", ".py">>,
                      <<"foo", ".", "bar">>, <<"/", "exp">>, FALSE)
        /\ C2_Example(<<"/", "exp", "/", "foo", "/", "bar", "/", "baz", ".py">>,
                      <<"foo", ".", "bar">>, <<"/", "exp">>, FALSE)

\* The suffix match has decided a call, and found the module local.
C2_Witness ==
    /\ call.fn = "is_local_source"
    /\ ret = Bool(TRUE)
    /\ C2_Under
    /\ C2_RelParts # call.parts
    /\ Len(call.base) > 0

(***************************************************************************)
(* C6: the version heuristic                                               *)
(***************************************************************************)

\* The string an attribute value stands for: a string itself, a tuple's
\* elements joined by dots; nothing for any other value.
C6_Text(value) ==
    IF value.t = "str" THEN value.v
    ELSE Join([k \in 1..Len(value.v) |-> PyStr(value.v[k])], ".")

\* The value is a string or a tuple whose text matches the grammar.
C6_Qualifies(value) ==
    value.t \in {"str", "tuple"} /\ PEP440_VERSION_PATTERN(C6_Text(value))

C6_First(mod) ==
    IF C6_Qualifies(mod.__version__) THEN Str(C6_Text(mod.__version__))
    ELSE IF C6_Qualifies(mod.VERSION) THEN Str(C6_Text(mod.VERSION))
    ELSE IF C6_Qualifies(mod.version) THEN Str(C6_Text(mod.version))
    ELSE None

\* C6: get_version_heuristic probes __version__, VERSION, version in that order
\* and returns the first value that is a string matching the grammar or a tuple
\* whose dot-joined elements match it; a value that fails is passed over; None
\* when no attribute qualifies.  __version__ = "not-a-version" alone gives None,
\* __version__ = (1, 2, 3) gives "1.2.3".
C6_FirstQualifyingVersion ==
    (call.fn = "get_version_heuristic" /\ ret # Idle) =>
        /\ ret = C6_First(call.mod)
        /\ (call.mod.__version__ = Str(NotAVersion)
               /\ call.mod.VERSION = Missing /\ call.mod.version = Missing)
             => ret = None
        /\ call.mod.__version__ = Tuple(<<PyInt(1), PyInt(2), PyInt(3)>>)
             => ret = Str(<<"1", ".", "2", ".", "3">>)

\* A value that fails the grammar was passed over and a later attribute gave
\* the version.
C6_Witness ==
    /\ call.fn = "get_version_heuristic"
    /\ call.mod.__version__ = Str(NotAVersion)
    /\ call.mod.VERSION = Tuple(<<>>)
    /\ ret = Str(<<"2", ".", "0">>)

(***************************************************************************)
(* iterate_imported_modules on its own: list(iterate_imported_modules(     *)
(* globs)) over a namespace of several values                              *)
(***************************************************************************)

MaxValues == 2      \* values of the namespace

\* The originating module paths of the values.
IterPaths ==
    {<<"a", ".", "b", ".", "c">>, <<"a", ".", "b">>, <<"b">>, <<"os", ".", "path">>}

\* A module, a function or class of it, a value whose __module__ is None or
\* empty, a value that has none.
IterValues ==
    {Module(path, Missing, Missing) : path \in IterPaths}
    \cup {Function(path) : path \in IterPaths}
    \cup {Object("object", Missing, None, Missing, Missing, Missing, Missing),
          Object("object", Missing, Str(<<>>), Missing, Missing, Missing, Missing),
          Object("object", Missing, Missing, Missing, Missing, Missing, Missing)}

IterEntries ==
    {Entry(name, Module(name, Missing, Missing)) :
        name \in {<<"a">>, <<"a", ".", "b">>, <<"a", ".", "b", ".", "c">>, <<"b">>,
                  <<"os">>, <<"os", ".", "path">>}}
    \cup {Entry(<<"a", ".", "b">>, None)}

IterRegistries ==
    {r \in SUBSET IterEntries : \A d, e \in r : d # e => d.name # e.name}

InitIter ==
    /\ call = [fn |-> "iterate_imported_modules"]
    /\ ret = <<>>
    /\ globs \in {[file |-> None, values |-> values] :
                     values \in SeqUpTo(IterValues, MaxValues)}
    /\ sys_modules \in IterRegistries
    /\ fs = {}
    /\ pc = "iterating"
    /\ main = None
    /\ experiment_path = <<>>
    /\ discover_sources = "unset"
    /\ discover_dependencies = "unset"
    /\ gen = ImportedStart
    /\ sources = {}
    /\ dependencies = {}
    /\ result = Idle

\* next() on the generator: the pair it yields is appended to the list, its
\* end ends the iteration.
IterateImportedModules ==
    /\ pc = "iterating"
    /\ LET n == ImportedNext(globs.values, sys_modules, gen)
       IN /\ gen' = n.gen
          /\ IF n.item = StopIteration
             THEN pc' = "exhausted" /\ UNCHANGED ret
             ELSE ret' = Append(ret, n.item) /\ UNCHANGED pc
    /\ UNCHANGED <<call, globs, sys_modules, fs, main, experiment_path,
                   discover_sources, discover_dependencies, sources, dependencies,
                   result>>

SpecIter == InitIter /\ [][IterateImportedModules]_vars

(***************************************************************************)
(* C9: what iterate_imported_modules yields                                *)
(***************************************************************************)

\* The dotted-name prefixes of a module path: what stands before one of its
\* dots, and the path itself.
C9_Prefixes(path) ==
    {SubSeq(path, 1, k) : k \in {k \in 1..Len(path) : k = Len(path) \/ path[k + 1] = "."}}

\* The prefixes of the originating module paths of the namespace's values.
C9_AllPrefixes(values) ==
    UNION {C9_Prefixes(ModPath(values[k]).v) :
              k \in {k \in 1..Len(values) : ModPath(values[k]).t = "str"}}

\* The pairs due: a prefix that is not blacklisted and is bound to a module.
C9_Due(values, registry) ==
    {Pair(name, Get(registry, name)) :
        name \in {n \in C9_AllPrefixes(values) :
                      Str(n) \notin MODULE_BLACKLIST /\ Get(registry, n) # None}}

\* C9: iterate_imported_modules yields each dotted name at most once, never a
\* blacklisted name, and over the whole iteration exactly the prefixes of the
\* values' module paths that are not blacklisted and are bound to a module in
\* the registry, every prefix having been looked up or found checked already.
C9_YieldsEachPrefixOnce ==
    call.fn = "iterate_imported_modules" =>
        /\ \A i, j \in 1..Len(ret) : i # j => ret[i].modname # ret[j].modname
        /\ \A i \in 1..Len(ret) :
              Str(ret[i].modname) \notin MODULE_BLACKLIST
              /\ ret[i] \in C9_Due(globs.values, sys_modules)
        /\ pc = "exhausted" =>
              /\ {ret[i] : i \in 1..Len(ret)} = C9_Due(globs.values, sys_modules)
              /\ gen.checked = MODULE_BLACKLIST
                    \cup {Str(n) : n \in C9_AllPrefixes(globs.values)}

\* Two values share a prefix that is bound, another prefix is blacklisted and
\* one is bound to None: the iteration has ended with what is left.
C9_Witness ==
    /\ call.fn = "iterate_imported_modules"
    /\ pc = "exhausted"
    /\ Len(globs.values) = 2
    /\ ModPath(globs.values[1]) = Str(<<"a", ".", "b", ".", "c">>)
    /\ ModPath(globs.values[2]) = Str(<<"a", ".", "b">>)
    /\ Get(sys_modules, <<"a", ".", "b">>) = None
    /\ Len(ret) = 2

(***************************************************************************)
(* The claims about a run of gather_sources_and_dependencies               *)
(***************************************************************************)

\* The pairs a module iterator yields over its whole run.
Considered(strategy) ==
    IF strategy = "sys"
    THEN {Pair(e.name, e.mod) :
             e \in {x \in sys_modules : Str(x.name) \notin MODULE_BLACKLIST /\ x.mod # None}}
    ELSE IF strategy = "imported" THEN C9_Due(globs.values, sys_modules)
    ELSE {}

FromModules == {"imported", "sys"}

\* The classifier takes the pair for local source.
Local(p) ==
    /\ p.mod.file # Missing
    /\ is_local_source(abspath(p.mod.file.v), p.modname, experiment_path)

NoDot(name) == \A k \in 1..Len(name) : name[k] # "."

\* The pair has a name, and a version or a name without a dot.
Kept(p) ==
    /\ p.mod.name # Missing
    /\ NoDot(p.mod.name.v) \/ get_version_heuristic(p.mod) # None

\* The file a Source of the pair's file is named after: the plain source of a
\* compiled file when it exists.
Recorded(p) ==
    LET f == abspath(p.mod.file.v)
        py == SubSeq(f, 1, Len(f) - 1) \o <<".py">>
    IN IF EndsWith(f, ".pyc") /\ py \in fs THEN py ELSE f

\* Both functions have returned, over the same iterator, and main is no file
\* of a pair: the sources without main are what get_sources_from_modules
\* returned, the dependencies what get_dependencies_from_modules returned.
C1_Case ==
    /\ pc = "add_numpy"
    /\ discover_sources \in FromModules
    /\ discover_dependencies = discover_sources
    /\ \A p \in Considered(discover_sources) :
          main = None \/ p.mod.file = Missing \/ Recorded(p) # main.filename

C1_Sources == {s \in sources : s.t = "Source" /\ s # main}

C1_FileRecorded(p) ==
    p.mod.file # Missing /\ \E s \in C1_Sources : s.filename = Recorded(p)

C1_NameRecorded(p) ==
    p.mod.name # Missing /\ \E d \in dependencies : d.name = p.mod.name.v

\* C1 as stated: every module considered is in exactly one of the two sets.
C1_ExactlyOneSet ==
    C1_Case =>
        \A p \in Considered(discover_sources) : C1_FileRecorded(p) # C1_NameRecorded(p)

\* C1 as amended: every module considered is classified once.  A local one
\* puts its file in the Source set and nothing in the PackageDependency set; one
\* that is not local puts nothing in the Source set, and its name in the
\* PackageDependency set unless it has no name or has a dotted name and no
\* version: then it is in neither set.
C1_ClassifiedOnce ==
    C1_Case =>
        /\ \A p \in Considered(discover_sources) :
              /\ Local(p) => C1_FileRecorded(p)
              /\ (~Local(p) /\ Kept(p)) => C1_NameRecorded(p)
        /\ \A s \in C1_Sources :
              \E p \in Considered(discover_sources) : Local(p) /\ Recorded(p) = s.filename
        /\ \A d \in dependencies :
              \E p \in Considered(discover_sources) :
                  ~Local(p) /\ Kept(p) /\ p.mod.name.v = d.name

\* A local module, and one that is in neither set.
C1_Witness ==
    /\ C1_Case
    /\ \E p, q \in Considered(discover_sources) :
          /\ Local(p) /\ C1_FileRecorded(p) /\ ~C1_NameRecorded(p)
          /\ ~Local(q) /\ ~C1_FileRecorded(q) /\ ~C1_NameRecorded(q)

\* The run is past get_main_file and has not raised.
PastMain ==
    pc \in {"gather_sources", "sources_loop", "add_main", "dependencies_loop",
            "add_numpy", "returned"}

\* C3: when the namespace has a __file__ and the run returns, the main Source
\* is a member of the sources returned, under every source strategy, and the
\* base path both strategies are given is the directory of main's filename.
C3_MainAmongSources ==
    globs.file # None =>
        /\ result.t = "returned" =>
              /\ result.main.t = "Source"
              /\ \E s \in result.sources :
                    s.t = "Source" /\ s.filename = result.main.filename
        /\ PastMain =>
              \E leaf \in {SubSeq(main.filename, k, Len(main.filename)) :
                               k \in 1..Len(main.filename)} :
                  /\ \A k \in 1..Len(leaf) : leaf[k] # Sep
                  /\ main.filename = experiment_path \o <<Sep>> \o leaf

\* A run with a main file has returned under the strategy that finds nothing.
C3_Witness ==
    /\ globs.file # None
    /\ result.t = "returned"
    /\ discover_sources = "none"
    /\ result.sources = {result.main}

\* C4: Source identity is the filename alone: the set of sources never holds
\* two Source records of one filename, whatever their digests.
C4_OneSourcePerFilename ==
    \A s, u \in {x \in sources : x.t = "Source"} : s.filename = u.filename => s = u

\* The file of main was read a second time for a module and had changed: the
\* set holds one Source of that filename, whose digest is not main's.
C4_Witness ==
    /\ pc = "add_numpy"
    /\ main.t = "Source"
    /\ \E s \in sources : s.filename = main.filename /\ s.digest # main.digest
    /\ discover_sources \in FromModules

\* A filename Source.create does not take.
BadFilename(filename) ==
    filename.t # "str" \/ Len(filename.v) = 0 \/ abspath(filename.v) \notin fs

\* C5: Source.create with an absent, empty or non-existent filename ends in a
\* value error and makes no Source; no strategy and no caller passes over the
\* error: a run that met such a file has raised the error and returned nothing.
C5_BadPathRaises ==
    /\ \A filename \in {None, Str(<<>>), Str(FooGonePy)} :
          SourceCreate(fs, filename, {}, FALSE) = ValueError
    /\ \A s \in {x \in sources \cup {main} : x.t = "Source"} : s.filename \in fs
    /\ pc = "raised" => result = ValueError
    /\ (PastMain /\ globs.file # None) => ~BadFilename(globs.file)
    /\ pc \in {"add_main", "dependencies_loop", "add_numpy", "returned"} =>
          \A p \in Considered(discover_sources) : Local(p) => ~BadFilename(p.mod.file)

\* The loop over the modules met a local module whose file is gone.
C5_Witness ==
    /\ pc = "raised"
    /\ discover_sources \in FromModules
    /\ \E p \in Considered(discover_sources) : Local(p) /\ BadFilename(p.mod.file)

\* C7: a turn of get_dependencies_from_modules' loop for a pair the classifier
\* takes for local source leaves the dependencies as they are, whatever
\* version attributes the module has.
C7_LocalAddsNoDependency ==
    [][(/\ pc = "dependencies_loop"
        /\ GenNext(globs.values, sys_modules, gen).item # StopIteration
        /\ Local(GenNext(globs.values, sys_modules, gen).item))
          => dependencies' = dependencies]_vars

\* The loop has just passed over a local module that has a version.
C7_Witness ==
    /\ pc = "dependencies_loop"
    /\ gen.kind = "sys"
    /\ gen.k = 2
    /\ Local(Pair(gen.items[1].name, gen.items[1].mod))
    /\ get_version_heuristic(gen.items[1].mod) # None
    /\ dependencies = {}

\* C8: every PackageDependency get_dependencies_from_modules returns has a
\* name without a dot or a version: a module that is not local is kept when
\* its name has no dot, version or not, and dropped when its name has a dot and
\* no version is found.
C8_DottedNeedsVersion ==
    discover_dependencies \in FromModules =>
        /\ pc \in {"dependencies_loop", "add_numpy"} =>
              \A d \in dependencies : NoDot(d.name) \/ d.version # None
        /\ pc = "add_numpy" =>
              \A p \in {x \in Considered(discover_dependencies) :
                            ~Local(x) /\ x.mod.name # Missing} :
                  IF NoDot(p.mod.name.v) \/ get_version_heuristic(p.mod) # None
                  THEN \E d \in dependencies :
                          d.name = p.mod.name.v
                          /\ d.version = get_version_heuristic(p.mod)
                  ELSE \A d \in dependencies : d.name # p.mod.name.v

\* A module without a dot was kept without a version, one with a dot and no
\* version was dropped.
C8_Witness ==
    /\ pc = "add_numpy"
    /\ discover_dependencies \in FromModules
    /\ \E d \in dependencies : d.version = None
    /\ \E p \in Considered(discover_dependencies) :
          /\ ~Local(p)
          /\ p.mod.name # Missing
          /\ ~NoDot(p.mod.name.v)
          /\ \A d \in dependencies : d.name # p.mod.name.v

\* C10: every element of the sources returned is a Source record; with no main
\* file the set holds no absent element and is what the strategy returned.
C10_OnlySourceRecords ==
    result.t = "returned" => \A s \in result.sources : s.t = "Source"

====
